---- MODULE Spec2Model ----
(***************************************************************************)
(* Model of the trs-database ETL job: the storage gateway                  *)
(* (src/database.py, class Database) and the ingestion driver              *)
(* (src/eventbrite.py, class EventbriteLoader).                            *)
(*                                                                         *)
(* A Python dict is a function from field names to values; a table is the  *)
(* sequence of its rows in insertion order; a row is a function from the   *)
(* column names it holds a value for (a column it has no value for is SQL  *)
(* NULL).  Python's None is the string "None" (what the '%s' / format()    *)
(* interpolation of the SQL text turns it into); a call that returns None  *)
(* where a dict is expected returns the empty function NoRow, which is     *)
(* falsy like None.                                                        *)
(***************************************************************************)
EXTENDS Integers, Sequences, FiniteSets, TLC

VARIABLES
    db,         \* committed content of the relational store: table -> rows
    catalog,    \* information_schema.columns: the columns each table has now
    queries,    \* the catalog lookups made so far, per table
    columns,    \* Database.columns, the cache of column names per table
    call,       \* the last gateway call made directly and what it returned
    pc,         \* position of EventbriteLoader.run
    now,        \* the clock read by datetime.utcnow()
    start,      \* run(): the start filter of the events list
    events,     \* run(): the events page being processed
    ei,         \* run(): index of the next entry of events['events']
    event,      \* run(): the event being processed
    attendees,  \* run(): the attendee page being processed
    ai,         \* run(): index of the next entry of attendees['attendees']
    remote,     \* remote side: what the API has served and refused in this run
    log         \* what the run did, in order: requests, sleeps, statements

vars == <<db, catalog, queries, columns, call, pc, now, start, events, ei, event, attendees, ai,
          remote, log>>

driverVars == <<pc, now, start, events, ei, event, attendees, ai, remote, log>>

(***************************************************************************)
(* Values                                                                  *)
(***************************************************************************)
None == "None"
NoRow == << >>

Restrict(f, S) == [k \in (DOMAIN f) \cap S |-> f[k]]

SeqsUpTo(S, n) == UNION {[1..k -> S] : k \in 0..n}

(***************************************************************************)
(* The relational store                                                    *)
(***************************************************************************)
MATERIALIZED_VIEWS == <<"event_aggregates", "members_view", "participants">>

Tables == {"events", "attendees", "orders", "venues"}

\* The column names the schema catalog holds for each table when the process
\* starts.
Catalog ==
    [t \in Tables |->
        CASE t = "events" ->
                {"id", "name", "description", "start_datetime", "end_datetime",
                 "load_datetime", "venue_id"}
          [] t = "attendees" ->
                {"id", "event_id", "name", "first_name", "last_name", "email",
                 "cost", "load_datetime"}
          [] t = "orders" -> {"id", "cost", "load_datetime"}
          [] t = "venues" ->
                {"id", "name", "address_1", "city", "latitude", "longitude",
                 "load_datetime"}]

\* The attendees table enforces uniqueness on id alone (the schema is not
\* part of the sources; this is what the data model says of it).
AttendeesUniqueIndex == {"attendees"}

\* Tables with a unique index on id ("Delete the current entry in order to
\* maintain the unique index"; attendees are deleted before they are loaded
\* for the same reason).
UniqueIndex == {"events"} \cup AttendeesUniqueIndex

EmptyStore == [t \in Tables |-> << >>]

\* get_columns: SELECT DISTINCT column_name FROM information_schema.columns.
get_columns(table) == catalog[table]

\* No catalog lookup made yet: process counts the lookups of the process,
\* loads those made by load_item and load_items of the Database instance in
\* use, first what each of these returned, instances the Database instances
\* constructed.
NoQueries ==
    [process |-> [t \in Tables |-> 0], loads |-> [t \in Tables |-> 0],
     first |-> << >>, instances |-> 1]

\* Lines 90-91 and 124-125: the catalog is looked up when the table is not in
\* self.columns.
Lookup(q, cols, table) ==
    IF table \in DOMAIN cols THEN q
    ELSE [q EXCEPT !.process[table] = @ + 1, !.loads[table] = @ + 1,
                   !.first = @ @@ (table :> get_columns(table))]

\* A plausible slip: the catalog is looked up on every call.
CachedColumnsFresh(cols, table) == (table :> get_columns(table)) @@ cols

\* The lazily filled cache, lines 90-92 of load_item.
CachedColumns(cols, table) ==
    IF table \in DOMAIN cols THEN cols ELSE cols @@ (table :> get_columns(table))

\* A plausible slip: no field is dropped.
ValidItemKeepAll(item, cols) == item

\* item_ = deepcopy(item); for key in item: if key not in columns: del item_[key]
ValidItem(item, cols) == [key \in {k \in DOMAIN item : k \in cols} |-> item[key]]

\* cursor.execute of "INSERT INTO t (cols) VALUES (row)": the store rejects a
\* statement with an empty column list "()" (a syntax error), one naming a
\* column the table does not have, and a row whose id is already in a table
\* with a unique index on id.
InsertRejected(rows, table, item_) ==
    \/ DOMAIN item_ = {}
    \/ ~ (DOMAIN item_ \subseteq catalog[table])
    \/ /\ table \in UniqueIndex
       /\ "id" \in DOMAIN item_
       /\ \E i \in DOMAIN rows : "id" \in DOMAIN rows[i] /\ rows[i]["id"] = item_["id"]

\* Database.load_item(item, table): the store and the cache afterwards, and
\* whether the call raised.  A statement that raises is never committed.
load_item(d, cols, item, table) ==
    LET cols1 == CachedColumns(cols, table)
        item_ == ValidItem(item, cols1[table])
        bad   == InsertRejected(d[table], table, item_)
    IN  [db      |-> IF bad THEN d ELSE [d EXCEPT ![table] = Append(@, item_)],
         columns |-> cols1,
         row     |-> item_,
         raised  |-> bad]

\* A dict with the order of its keys: the sequence of its <<key, value>> pairs.
\* AsDict forgets the order.
AsDict(pairs) ==
    [key \in {pairs[i][1] : i \in DOMAIN pairs} |->
        pairs[CHOOSE i \in DOMAIN pairs : pairs[i][1] = key][2]]

\* item_ = deepcopy(item); del item_[key] for the keys not in columns: the
\* pairs left, in the order of the dict.
ValidPairs(pairs, cols) ==
    LET Known(p) == p[1] \in cols
    IN  SelectSeq(pairs, Known)

\* Database.load_items(items, table).  The column list of the statement is
\* taken from items[0] (lines 129-136), the tuple of each item from that
\* item's own keys in that item's own order (lines 146-152), and
\* execute_values sends one INSERT with one VALUES list per item: the j-th
\* value of a tuple is stored under the j-th column of the list.  The store
\* rejects the statement when a tuple has not as many values as the list has
\* columns, when the list is empty, and when an id repeats one stored or one
\* of the batch in a table with a unique index on id; items[0] of an empty
\* list is an IndexError.  One statement, one commit: all rows or none.
load_items(d, cols, items, table) ==
    LET cols1  == CachedColumns(cols, table)
        known  == cols1[table]
        names  == IF items = << >> THEN << >>
                  ELSE [j \in DOMAIN ValidPairs(items[1], known) |->
                            ValidPairs(items[1], known)[j][1]]
        values == [i \in DOMAIN items |->
                     [j \in DOMAIN ValidPairs(items[i], known) |->
                            ValidPairs(items[i], known)[j][2]]]
        fits   == \A i \in DOMAIN items : Len(values[i]) = Len(names)
        rows   == [i \in DOMAIN items |->
                     [key \in {names[j] : j \in DOMAIN names} |->
                        values[i][CHOOSE j \in DOMAIN names : names[j] = key]]]
        bad    == \/ items = << >>
                  \/ ~ fits
                  \/ \E i \in DOMAIN items :
                        InsertRejected(d[table] \o SubSeq(rows, 1, i - 1), table, rows[i])
    IN  [db      |-> IF bad THEN d ELSE [d EXCEPT ![table] = @ \o rows],
         columns |-> cols1,
         rows    |-> IF bad THEN << >> ELSE rows,
         raised  |-> bad]

\* WHERE id='{item_id}' AND key='value' ...: a NULL never matches.
MatchesId(row, item_id) == "id" \in DOMAIN row /\ row["id"] = item_id

MatchesSecondary(row, secondary) ==
    \A key \in DOMAIN secondary : key \in DOMAIN row /\ row[key] = secondary[key]

\* A plausible slip: nothing is deleted.
delete_item_nothing(d, table, item_id, secondary) == d

\* A plausible slip: the statement has no WHERE clause.
delete_item_all(d, table, item_id, secondary) == [d EXCEPT ![table] = << >>]

\* Database.delete_item(table, item_id, secondary): the rows left.
delete_item(d, table, item_id, secondary) ==
    LET Keep(row) == ~ (MatchesId(row, item_id) /\ MatchesSecondary(row, secondary))
    IN  [d EXCEPT ![table] = SelectSeq(@, Keep)]

\* Database.get_item(table, item_id, secondary): the query is run (line 177)
\* before the secondary filter is appended to its text (lines 178-180), so
\* the rows returned are those matching id alone.
get_item(d, table, item_id, secondary) ==
    LET Hit(row) == MatchesId(row, item_id)
        df == SelectSeq(d[table], Hit)
    IN  IF Len(df) > 0 THEN df[1] ELSE NoRow

\* The name of the backup of a table: "{table}_backup".
BackupOf(table) == table \o "_backup"

\* DROP TABLE IF EXISTS name.
DropIfExists(d, name) == Restrict(d, DOMAIN d \ {name})

\* run_query of a text of statements ending in
\* "CREATE TABLE name AS SELECT * FROM from_", on the store d the statements
\* before it have made.  committed is the store before the text: when the
\* table selected from does not exist the statement raises, commit() is not
\* reached and the statements before it are not committed either.
CreateAsSelect(committed, d, name, from_) ==
    IF from_ \in DOMAIN d
    THEN [db |-> (name :> d[from_]) @@ d, raised |-> FALSE]
    ELSE [db |-> committed, raised |-> TRUE]

\* Database.backup_table(table).
backup_table(d, table) ==
    CreateAsSelect(d, DropIfExists(d, BackupOf(table)), BackupOf(table), table)

\* Database.revert_table(table): the table dropped is the table selected from.
revert_table(d, table) ==
    CreateAsSelect(d, DropIfExists(d, table), table, table)

\* Database.truncate_table(table).
truncate_table(d, table) == [d EXCEPT ![table] = << >>]

(***************************************************************************)
(* The gateway called directly: any sequence of load_item, delete_item and *)
(* get_item calls on one Database instance, with arguments drawn from      *)
(* small sets.                                                             *)
(***************************************************************************)
MaxRows == 2

DbTables == {"events", "venues"}

ItemFields == {"id", "name", "bogus"}

FieldValues(k) ==
    CASE k = "id" -> {"1", "2"}
      [] k = "name" -> {"x", "y"}
      [] OTHER -> {"z"}

AllValues == UNION {FieldValues(k) : k \in ItemFields}

\* The dicts over subsets of ItemFields, the empty dict included.
Items ==
    UNION {{f \in [S -> AllValues] : \A k \in S : f[k] \in FieldValues(k)} :
           S \in SUBSET ItemFields}

Secondaries ==
    UNION {{f \in [S -> AllValues] : \A k \in S : f[k] \in FieldValues(k)} :
           S \in SUBSET {"name"}}

TotalRows(d) == Len(d["events"]) + Len(d["venues"]) + Len(d["attendees"]) + Len(d["orders"])

NoCall ==
    [op |-> "none", table |-> "", item |-> NoRow, items |-> << >>, left |-> NoRow,
     item_id |-> "", secondary |-> NoRow, before |-> << >>, raised |-> FALSE,
     result |-> NoRow]

\* seconds of timedelta(days=1)
Day == 86400

\* The clock when the job is started.
Epoch == 3 * Day

NoTraffic == [outages |-> 0, entries |-> 0, mores |-> 0]

IdleDriver ==
    /\ pc = "idle"
    /\ now = Epoch
    /\ start = None
    /\ events = NoRow
    /\ ei = 0
    /\ event = NoRow
    /\ attendees = NoRow
    /\ ai = 0
    /\ remote = NoTraffic
    /\ log = << >>

InitDb ==
    /\ catalog = Catalog
    /\ queries = NoQueries
    /\ db = EmptyStore
    /\ columns = << >>
    /\ call = NoCall
    /\ IdleDriver

DbLoadItem ==
    \E table \in DbTables, item \in Items :
        LET r == load_item(db, columns, item, table)
        IN  /\ TotalRows(db) < MaxRows
            /\ db' = r.db
            /\ columns' = r.columns
            /\ queries' = Lookup(queries, columns, table)
            /\ call' = [NoCall EXCEPT !.op = "load_item", !.table = table,
                                      !.item = item, !.before = db[table],
                                      !.raised = r.raised]
            /\ UNCHANGED <<catalog, driverVars>>

DbDeleteItem ==
    \E table \in DbTables, item_id \in FieldValues("id"), secondary \in Secondaries :
        /\ db' = delete_item(db, table, item_id, secondary)
        /\ call' = [NoCall EXCEPT !.op = "delete_item", !.table = table,
                                  !.item_id = item_id, !.secondary = secondary,
                                  !.before = db[table]]
        /\ UNCHANGED <<catalog, queries, columns, driverVars>>

DbGetItem ==
    \E table \in DbTables, item_id \in FieldValues("id"), secondary \in Secondaries :
        /\ call' = [NoCall EXCEPT !.op = "get_item", !.table = table,
                                  !.item_id = item_id, !.secondary = secondary,
                                  !.before = db[table],
                                  !.result = get_item(db, table, item_id, secondary)]
        /\ UNCHANGED <<db, catalog, queries, columns, driverVars>>

NextDb == DbLoadItem \/ DbDeleteItem \/ DbGetItem

SpecDb == InitDb /\ [][NextDb]_vars

(***************************************************************************)
(* Table maintenance: backup_table, revert_table and truncate_table among  *)
(* inserts and deletes on one table.                                       *)
(***************************************************************************)
AdminTables == {"events"}

AdminItems == {item \in Items : DOMAIN item \subseteq {"id"}}

AdminLoadItem ==
    \E table \in AdminTables, item \in AdminItems :
        LET r == load_item(db, columns, item, table)
        IN  /\ Len(db[table]) < MaxRows
            /\ db' = r.db
            /\ columns' = r.columns
            /\ queries' = Lookup(queries, columns, table)
            /\ call' = [NoCall EXCEPT !.op = "load_item", !.table = table,
                                      !.item = item, !.before = db[table],
                                      !.raised = r.raised]
            /\ UNCHANGED <<catalog, driverVars>>

AdminDeleteItem ==
    \E table \in AdminTables, item_id \in FieldValues("id") :
        /\ db' = delete_item(db, table, item_id, NoRow)
        /\ call' = [NoCall EXCEPT !.op = "delete_item", !.table = table,
                                  !.item_id = item_id, !.before = db[table]]
        /\ UNCHANGED <<catalog, queries, columns, driverVars>>

AdminBackup ==
    \E table \in AdminTables :
        LET r == backup_table(db, table)
        IN  /\ db' = r.db
            /\ call' = [NoCall EXCEPT !.op = "backup_table", !.table = table,
                                      !.before = db[table], !.raised = r.raised]
            /\ UNCHANGED <<catalog, queries, columns, driverVars>>

AdminRevert ==
    \E table \in AdminTables :
        LET r == revert_table(db, table)
        IN  /\ db' = r.db
            /\ call' = [NoCall EXCEPT !.op = "revert_table", !.table = table,
                                      !.before = db[table], !.raised = r.raised]
            /\ UNCHANGED <<catalog, queries, columns, driverVars>>

AdminTruncate ==
    \E table \in AdminTables :
        /\ db' = truncate_table(db, table)
        /\ call' = [NoCall EXCEPT !.op = "truncate_table", !.table = table,
                                  !.before = db[table]]
        /\ UNCHANGED <<catalog, queries, columns, driverVars>>

NextAdmin ==
    \/ AdminLoadItem
    \/ AdminDeleteItem
    \/ AdminBackup
    \/ AdminRevert
    \/ AdminTruncate

SpecAdmin == InitDb /\ [][NextAdmin]_vars

(***************************************************************************)
(* Batch loads: load_items called with lists of dicts whose keys come in   *)
(* any order, among deletes.                                               *)
(***************************************************************************)
MaxBatch == 2

MaxKeys == 2

BatchTables == {"events"}

BatchFields == {"id", "name", "bogus"}

BatchValues(k) == IF k = "id" THEN {"1", "2"} ELSE IF k = "name" THEN {"x"} ELSE {"z"}

\* The <<key, value>> pairs a dict may hold.
FieldPairs == UNION {{<<k, v>> : v \in BatchValues(k)} : k \in BatchFields}

\* The dicts of at most MaxKeys keys of BatchFields, in every order of their
\* keys.
OrderedItems ==
    {pairs \in SeqsUpTo(FieldPairs, MaxKeys) :
        \A i, j \in DOMAIN pairs : pairs[i][1] = pairs[j][1] => i = j}

BatchLoadItems ==
    \E table \in BatchTables, items \in SeqsUpTo(OrderedItems, MaxBatch) :
        LET r == load_items(db, columns, items, table)
        IN  /\ Len(db[table]) + Len(items) <= MaxRows
            /\ db' = r.db
            /\ columns' = r.columns
            /\ queries' = Lookup(queries, columns, table)
            /\ call' = [NoCall EXCEPT !.op = "load_items", !.table = table,
                                      !.items = items, !.before = db[table],
                                      !.raised = r.raised]
            /\ UNCHANGED <<catalog, driverVars>>

BatchDeleteItem ==
    \E table \in BatchTables, item_id \in FieldValues("id") :
        /\ db' = delete_item(db, table, item_id, NoRow)
        /\ call' = [NoCall EXCEPT !.op = "delete_item", !.table = table,
                                  !.item_id = item_id, !.before = db[table]]
        /\ UNCHANGED <<catalog, queries, columns, driverVars>>

NextBatch == BatchLoadItems \/ BatchDeleteItem

SpecBatch == InitDb /\ [][NextBatch]_vars

(***************************************************************************)
(* The column cache: get_columns, load_item and load_items called on the   *)
(* Database instances of one process while the schema of the table is      *)
(* changed from outside.                                                   *)
(***************************************************************************)
MaxQueries == 3

MaxInstances == 2

CacheTables == {"venues"}

\* The columns that are added to or dropped from a table.
AlterColumns == {"name", "bogus"}

CacheItems ==
    {item \in Items : /\ "id" \in DOMAIN item /\ item["id"] = "1"
                      /\ "name" \in DOMAIN item => item["name"] = "x"}

CacheBatches ==
    {<<pairs>> : pairs \in {p \in OrderedItems : Len(p) > 0 /\ p[1] = <<"id", "1">>}}

\* Database.get_columns(table) called directly: a catalog query whatever the
\* instance has cached, and nothing is cached.
CacheGetColumns ==
    \E table \in CacheTables :
        /\ queries.process[table] < MaxQueries
        /\ queries' = [queries EXCEPT !.process[table] = @ + 1]
        /\ call' = [NoCall EXCEPT !.op = "get_columns", !.table = table,
                                  !.before = db[table]]
        /\ UNCHANGED <<db, catalog, columns, driverVars>>

CacheLoadItem ==
    \E table \in CacheTables, item \in CacheItems :
        LET r == load_item(db, columns, item, table)
        IN  /\ Len(db[table]) < MaxRows
            /\ queries.process[table] < MaxQueries
            /\ db' = r.db
            /\ columns' = r.columns
            /\ queries' = Lookup(queries, columns, table)
            /\ call' = [NoCall EXCEPT !.op = "load_item", !.table = table,
                                      !.item = item, !.before = db[table],
                                      !.raised = r.raised]
            /\ UNCHANGED <<catalog, driverVars>>

CacheLoadItems ==
    \E table \in CacheTables, items \in CacheBatches :
        LET r == load_items(db, columns, items, table)
        IN  /\ Len(db[table]) + Len(items) <= MaxRows
            /\ queries.process[table] < MaxQueries
            /\ db' = r.db
            /\ columns' = r.columns
            /\ queries' = Lookup(queries, columns, table)
            /\ call' = [NoCall EXCEPT !.op = "load_items", !.table = table,
                                      !.items = items, !.before = db[table],
                                      !.raised = r.raised]
            /\ UNCHANGED <<catalog, driverVars>>

\* Database(): another instance is constructed and used from now on; its
\* self.columns is empty (line 24).
CacheNewInstance ==
    /\ queries.instances < MaxInstances
    /\ columns' = << >>
    /\ queries' = [queries EXCEPT !.loads = NoQueries.loads, !.first = << >>,
                                  !.instances = @ + 1]
    /\ call' = [NoCall EXCEPT !.op = "Database"]
    /\ UNCHANGED <<db, catalog, driverVars>>

\* ALTER TABLE ... ADD / DROP COLUMN run by someone else: the catalog row of
\* the column appears or goes, and with it the values stored in the column.
CacheAlterTable ==
    \E table \in CacheTables, c \in AlterColumns :
        /\ catalog' = [catalog EXCEPT ![table] = IF c \in @ THEN @ \ {c} ELSE @ \cup {c}]
        /\ db' = [db EXCEPT ![table] = [i \in DOMAIN @ |-> Restrict(@[i], catalog'[table])]]
        /\ call' = [NoCall EXCEPT !.op = "alter", !.table = table]
        /\ UNCHANGED <<queries, columns, driverVars>>

NextCache ==
    \/ CacheGetColumns
    \/ CacheLoadItem
    \/ CacheLoadItems
    \/ CacheNewInstance
    \/ CacheAlterTable

SpecCache == InitDb /\ [][NextCache]_vars

(***************************************************************************)
(* The remote API: payloads and list pages                                 *)
(***************************************************************************)
EVENTBRITE_ORG == "org"

\* An event of the organizer's event list.
EventPayload(id, name, venue_id) ==
    [id |-> id, name |-> [text |-> name], description |-> [text |-> "about"],
     start |-> [utc |-> "2019-01-01T18:00:00Z"],
     end |-> [utc |-> "2019-01-01T20:00:00Z"], venue_id |-> venue_id]

\* An event that starts after the job does.
LateEventPayload(id, name) ==
    [EventPayload(id, name, None) EXCEPT !["start"] = [utc |-> "2019-01-05T18:00:00Z"],
                                         !["end"] = [utc |-> "2019-01-05T20:00:00Z"]]

\* An event that starts after the job does and that the API serves without
\* a description.
BrokenEventPayload(id, name) ==
    Restrict(LateEventPayload(id, name), {"id", "name", "start", "end", "venue_id"})

\* An attendee of an event's attendee list (first_name and last_name are
\* not supplied).
AttendeePayload(id, event_id) ==
    [id |-> id, event_id |-> event_id,
     profile |-> [name |-> "Ann Lee", email |-> "ann@example.org"],
     costs |-> [gross |-> [major_value |-> "12.50"]]]

VenuePayload(id) ==
    [id |-> id, name |-> "Hall",
     address |-> [address_1 |-> "1 Main St", city |-> "Springfield"],
     latitude |-> "38.5", longitude |-> "-77.25"]

OrderPayload(id) == [id |-> id, costs |-> [gross |-> [major_value |-> "12.50"]]]

\* The entries an events page may hold; NoRow is a null entry.
EventMenu ==
    {NoRow, EventPayload("e1", "Meetup", None), EventPayload("e1", "Meetup (moved)", "v1"),
     EventPayload("e2", "Workshop", "v1")}

\* The entries a page of the attendee list of event_id may hold.
AttendeeMenu(event_id) == {NoRow, AttendeePayload("a1", event_id)}

\* A list response: its paging structure and its entries.
EventsPage(page, list, more) ==
    [pagination |-> [object_count |-> Len(list) + (IF more THEN 1 ELSE 0),
                     page_number |-> page, has_more_items |-> more],
     events |-> list]

AttendeesPage(page, list, more) ==
    [pagination |-> [object_count |-> Len(list) + (IF more THEN 1 ELSE 0),
                     page_number |-> page, has_more_items |-> more],
     attendees |-> list]

(***************************************************************************)
(* Conversions                                                             *)
(***************************************************************************)
\* arrow.get(text).datetime: the instant, in seconds, of an ISO-8601 text.
ArrowGet(text) ==
    CASE text = "2019-01-01T18:00:00Z" -> 64800
      [] text = "2019-01-01T20:00:00Z" -> 72000
      [] text = "2019-01-05T18:00:00Z" -> 4 * Day + 64800
      [] text = "2019-01-05T20:00:00Z" -> 4 * Day + 72000

\* float(text), in hundredths.
Float(text) ==
    CASE text = "12.50" -> 1250
      [] text = "38.5" -> 3850
      [] text = "-77.25" -> -7725

\* str(first_event)[:10]: the calendar date of an instant.
DateOf(t) == ToString(t \div Day)

Min(a, b) == IF a < b THEN a ELSE b

Max(S) == CHOOSE x \in S : \A y \in S : y <= x

(***************************************************************************)
(* The transformations of EventbriteLoader: the dict handed to load_item   *)
(***************************************************************************)
\* load_event, lines 259-273; t is datetime.utcnow().
EventItem(e, t) ==
    [k \in DOMAIN e \cup {"start_datetime", "end_datetime", "load_datetime"} |->
        CASE k = "start_datetime" -> ArrowGet(e["start"]["utc"])
          [] k = "end_datetime" -> ArrowGet(e["end"]["utc"])
          [] k = "description" -> e["description"]["text"]
          [] k = "name" -> e["name"]["text"]
          [] k = "load_datetime" -> t
          [] OTHER -> e[k]]

\* load_event raises a KeyError on a payload that lacks one of the keys it
\* reads (lines 261-271).
LoadEventRaises(e) == ~ ({"start", "end", "description", "name"} \subseteq DOMAIN e)

\* load_attendee, lines 278-293.
AttendeeItem(a, t) ==
    LET profile == a["profile"]
        copied == {"name", "first_name", "last_name", "email"} \cap DOMAIN profile
    IN  [k \in DOMAIN a \cup copied \cup {"cost", "load_datetime"} |->
            CASE k \in copied -> profile[k]
              [] k = "cost" -> Float(a["costs"]["gross"]["major_value"])
              [] k = "load_datetime" -> t
              [] OTHER -> a[k]]

\* load_order, lines 298-303.
OrderItem(o, t) ==
    [k \in DOMAIN o \cup {"cost", "load_datetime"} |->
        CASE k = "cost" -> Float(o["costs"]["gross"]["major_value"])
          [] k = "load_datetime" -> t
          [] OTHER -> o[k]]

\* load_venue, lines 308-315: the address is flattened and the coordinates
\* parsed; no load_datetime is set.
VenueItem(v) ==
    [k \in DOMAIN v \cup DOMAIN v["address"] |->
        CASE k \in DOMAIN v["address"] -> v["address"][k]
          [] k = "latitude" -> Float(v["latitude"])
          [] k = "longitude" -> Float(v["longitude"])
          [] OTHER -> v[k]]

\* Database.last_event_load_date: max(load_datetime) over the events with a
\* start time, as a one-element tuple; the empty tuple when there is none.
last_event_load_date(d) ==
    LET ts == {d["events"][i]["load_datetime"] :
                 i \in {j \in DOMAIN d["events"] :
                          /\ "start_datetime" \in DOMAIN d["events"][j]
                          /\ "load_datetime" \in DOMAIN d["events"][j]}}
    IN  IF ts = {} THEN << >> ELSE <<Max(ts)>>

\* A plausible slip: the date of the last load, whatever the clock says.
StartFilterLastLoad(d, t) ==
    LET last_load_date == last_event_load_date(d)
    IN  IF last_load_date # << >> THEN DateOf(last_load_date[1]) ELSE None

\* run(), lines 143-151: the start filter.
StartFilter(d, t) ==
    LET last_load_date == last_event_load_date(d)
    IN  IF last_load_date # << >>
        THEN DateOf(Min(t - Day, last_load_date[1]))
        ELSE None

(***************************************************************************)
(* What a run does, in order                                               *)
(***************************************************************************)
RATE_LIMIT_SLEEP == 3600

EVENT_SLEEP == 60

\* A request answered: attempt is 1 for the first call of a wrapper and 2 for
\* its retry; resp is the response (for a list, its paging structure gives
\* has_more_items and object_count; a venue has none).
Served(kind, id, start_, page, attempt, resp) ==
    LET paged == "pagination" \in DOMAIN resp
    IN  [op |-> "request", kind |-> kind, id |-> id, start |-> start_, page |-> page,
         attempt |-> attempt, down |-> 0,
         more |-> paged /\ resp["pagination"]["has_more_items"],
         count |-> IF paged THEN resp["pagination"]["object_count"] ELSE 0,
         n |-> IF kind = "events" THEN Len(resp["events"])
               ELSE IF kind = "attendees" THEN Len(resp["attendees"]) ELSE 0]

\* A request refused (a status code other than 200, so the client returns
\* None); down is the number of requests, this one included, that the remote
\* refuses in a row: 1 means a retry succeeds, 2 that the retry is refused too.
Refused(kind, id, start_, page, attempt, down) ==
    [op |-> "request", kind |-> kind, id |-> id, start |-> start_, page |-> page,
     attempt |-> attempt, down |-> down, more |-> FALSE, count |-> 0, n |-> 0]

Slept(secs) == [op |-> "sleep", secs |-> secs]

Raised(error) == [op |-> "raise", error |-> error]

Deleted(table, id, secondary) ==
    [op |-> "delete", table |-> table, id |-> id, secondary |-> secondary]

\* fields are the keys of the dict handed to load_item, row what it inserts.
Inserted(table, fields, row, raised) ==
    [op |-> "insert", table |-> table, fields |-> fields, row |-> row, raised |-> raised]

Selected(table, id, found) ==
    [op |-> "select", table |-> table, id |-> id, found |-> found]

Refreshed(view) == [op |-> "refresh", view |-> view]

(***************************************************************************)
(* The fetch wrappers of EventbriteLoader.  down says how the remote       *)
(* answers (0: the first call succeeds), resp is what it serves.  Each     *)
(* gives the log of the call, its result, whether it raised and how long   *)
(* it slept.                                                               *)
(***************************************************************************)
\* get_events: the retry omits the required org_id argument, so the call
\* itself is a TypeError and no second request is made.
get_events(start_, page, down, resp) ==
    IF down = 0
    THEN [log |-> <<Served("events", EVENTBRITE_ORG, start_, page, 1, resp)>>,
          result |-> resp, raised |-> FALSE, slept |-> 0]
    ELSE [log |-> <<Refused("events", EVENTBRITE_ORG, start_, page, 1, down),
                    Slept(RATE_LIMIT_SLEEP), Raised("TypeError")>>,
          result |-> NoRow, raised |-> TRUE, slept |-> RATE_LIMIT_SLEEP]

\* get_attendees: one pause and one retry of the same request; a second
\* refusal is returned as None.
get_attendees(event_id, page, down, resp) ==
    IF down = 0
    THEN [log |-> <<Served("attendees", event_id, None, page, 1, resp)>>,
          result |-> resp, raised |-> FALSE, slept |-> 0]
    ELSE IF down = 1
    THEN [log |-> <<Refused("attendees", event_id, None, page, 1, down),
                    Slept(RATE_LIMIT_SLEEP),
                    Served("attendees", event_id, None, page, 2, resp)>>,
          result |-> resp, raised |-> FALSE, slept |-> RATE_LIMIT_SLEEP]
    ELSE [log |-> <<Refused("attendees", event_id, None, page, 1, down),
                    Slept(RATE_LIMIT_SLEEP),
                    Refused("attendees", event_id, None, page, 2, down - 1)>>,
          result |-> NoRow, raised |-> FALSE, slept |-> RATE_LIMIT_SLEEP]

\* get_venue: the retry names event_id, which is not defined in the method,
\* so it is a NameError and no second request is made.
get_venue(venue_id, page, down, resp) ==
    IF down = 0
    THEN [log |-> <<Served("venue", venue_id, None, page, 1, resp)>>,
          result |-> resp, raised |-> FALSE, slept |-> 0]
    ELSE [log |-> <<Refused("venue", venue_id, None, page, 1, down),
                    Slept(RATE_LIMIT_SLEEP), Raised("NameError")>>,
          result |-> NoRow, raised |-> TRUE, slept |-> RATE_LIMIT_SLEEP]

\* A plausible slip: views refreshed out of order.
refresh_views_reversed ==
    [i \in DOMAIN MATERIALIZED_VIEWS |->
        Refreshed(MATERIALIZED_VIEWS[Len(MATERIALIZED_VIEWS) + 1 - i])]

\* Database.refresh_views: one REFRESH MATERIALIZED VIEW per view, in order.
refresh_views == [i \in DOMAIN MATERIALIZED_VIEWS |-> Refreshed(MATERIALIZED_VIEWS[i])]

\* A plausible slip: the run goes on when there are no events.
HasEventsAlways(resp) == resp["pagination"]["object_count"] >= 0

\* run(), lines 154-155: num_events > 0.
HasEvents(resp) == resp["pagination"]["object_count"] > 0

\* A plausible slip: the same page is requested again.
NextPageSame(resp) == resp["pagination"]["page_number"]

\* run(), lines 201 and 210: the page after the one just processed.
NextPage(resp) == resp["pagination"]["page_number"] + 1

\* A plausible slip: the venue is fetched whether or not it is stored.
NeedsVenueAlways(venue_id, venue_) == venue_id # None

\* run(), line 178: venue_id and not venue_.
NeedsVenue(venue_id, venue_) == venue_id # None /\ venue_ = NoRow

(***************************************************************************)
(* EventbriteLoader.run against a remote that serves well-formed pages     *)
(* (the page number asked for, has_more_items on every page but the last)  *)
(* and may refuse requests.                                                *)
(***************************************************************************)
MaxEntries == 2

MaxMores == 1

MaxOutages == 1

SeedTime == Day

\* The store a previous run left: an event, its venue and an attendee.
SeededStore ==
    LET e == load_item(EmptyStore, << >>,
                       EventItem(EventPayload("e2", "Workshop", "v1"), SeedTime), "events")
        v == load_item(e.db, e.columns, VenueItem(VenuePayload("v1")), "venues")
        a == load_item(v.db, v.columns,
                       AttendeeItem(AttendeePayload("a1", "e2"), SeedTime), "attendees")
    IN  a.db

InitRun ==
    /\ catalog = Catalog
    /\ queries = NoQueries
    /\ db \in {EmptyStore, SeededStore}
    /\ columns = << >>
    /\ call = NoCall
    /\ IdleDriver

\* How the remote may answer the next request.
Downs == {down \in 0..2 : down > 0 => remote["outages"] < MaxOutages}

Mores == {more \in BOOLEAN : more => remote["mores"] < MaxMores}

\* The remote has a fixed list of events, remote["listing"], when it has that
\* field; otherwise any well-formed page may come.
Listed == "listing" \in DOMAIN remote

PageSize == 1

\* The date of a 'start_date.range_start' parameter, as the API reads it.
ParseDate(text) == CHOOSE day \in 0..(now \div Day) : ToString(day) = text

\* The events of a listing that the API returns for a start filter
\* (Eventbrite.get_events, lines 42-44): those starting on that date or later.
InRange(listing, start_) ==
    LET Starts(e) == \/ e = NoRow
                     \/ start_ = None
                     \/ ArrowGet(e["start"]["utc"]) >= ParseDate(start_) * Day
    IN  SelectSeq(listing, Starts)

\* A page of a list: PageSize entries a page.
PageOf(all, page) == SubSeq(all, (page - 1) * PageSize + 1, Min(page * PageSize, Len(all)))

Paging(all, page) ==
    [object_count |-> Len(all), page_number |-> page,
     has_more_items |-> page * PageSize < Len(all)]

ListedEventsPage(start_, page) ==
    LET all == InRange(remote["listing"], start_)
    IN  [pagination |-> Paging(all, page), events |-> PageOf(all, page)]

\* The attendee list of a listed event: one attendee and a null entry.
ListedAttendees(event_id) == <<AttendeePayload("a-" \o event_id, event_id), NoRow>>

ListedAttendeesPage(event_id, page) ==
    LET all == ListedAttendees(event_id)
    IN  [pagination |-> Paging(all, page), attendees |-> PageOf(all, page)]

EventsResponses(page) ==
    IF Listed THEN {ListedEventsPage(start, page)}
    ELSE {EventsPage(page, list, more) :
            list \in SeqsUpTo(EventMenu, MaxEntries - remote["entries"]), more \in Mores}

AttendeesResponses(event_id, page) ==
    IF Listed THEN {ListedAttendeesPage(event_id, page)}
    ELSE {AttendeesPage(page, list, more) :
            list \in SeqsUpTo(AttendeeMenu(event_id), MaxEntries - remote["entries"]),
            more \in Mores}

\* The remote after a wrapper call that logged entries.
Traffic(entries) ==
    LET last == entries[Len(entries)]
        first == entries[1]
    IN  [remote EXCEPT
            !["outages"] = @ + (IF first["down"] > 0 THEN 1 ELSE 0),
            !["entries"] = @ + (IF last["op"] = "request" THEN last["n"] ELSE 0),
            !["mores"]   = @ + (IF last["op"] = "request" /\ last["more"] THEN 1 ELSE 0)]

\* Lines 143-151.
RunStart ==
    /\ pc = "idle"
    /\ start' = StartFilter(db, now)
    /\ pc' = "first_fetch"
    /\ UNCHANGED <<db, catalog, queries, columns, call, now, events, ei, event, attendees, ai, remote, log>>

\* Lines 152-161: the first events page and the check of the event count.
FirstFetch ==
    /\ pc = "first_fetch"
    /\ \E down \in Downs, resp \in EventsResponses(1) :
        LET r == get_events(start, 1, down, resp)
        IN  /\ events' = r.result
            /\ ei' = 1
            /\ now' = now + r.slept
            /\ log' = log \o r.log
            /\ remote' = Traffic(r.log)
            /\ pc' = IF r.raised THEN "fault"
                     ELSE IF HasEvents(r.result) THEN "for_event" ELSE "returned"
    /\ UNCHANGED <<db, catalog, queries, columns, call, start, event, attendees, ai>>

\* Lines 163-165: a null entry of the page is skipped.
SkipNullEvent ==
    /\ pc = "for_event"
    /\ ei <= Len(events["events"])
    /\ events["events"][ei] = NoRow
    /\ ei' = ei + 1
    /\ UNCHANGED <<db, catalog, queries, columns, call, pc, now, start, events, event, attendees, ai,
                   remote, log>>

\* Lines 166-172: the stored row of the event is deleted (and the delete
\* committed, run_query) and the event loaded.
ProcessEvent ==
    /\ pc = "for_event"
    /\ ei <= Len(events["events"])
    /\ events["events"][ei] # NoRow
    /\ LET e == events["events"][ei]
           deleted == delete_item(db, "events", e["id"], NoRow)
           bad == LoadEventRaises(e)
           item == EventItem(e, now)
           r == load_item(deleted, columns, item, "events")
       IN  /\ event' = e
           /\ db' = IF bad THEN deleted ELSE r.db
           /\ columns' = IF bad THEN columns ELSE r.columns
           /\ queries' = IF bad THEN queries ELSE Lookup(queries, columns, "events")
           /\ now' = IF bad THEN now ELSE now + 1
           /\ log' = log \o <<Deleted("events", e["id"], NoRow)>>
                         \o (IF bad THEN <<Raised("KeyError")>>
                             ELSE <<Inserted("events", DOMAIN item, r.row, r.raised)>>
                                  \o (IF r.raised THEN <<Raised("DatabaseError")>>
                                      ELSE << >>))
           /\ pc' = IF bad \/ r.raised THEN "fault" ELSE "venue"
    /\ UNCHANGED <<catalog, call, start, events, ei, attendees, ai, remote>>

\* Lines 176-178 when the venue is stored or the event has none: no fetch.
SkipVenue ==
    /\ pc = "venue"
    /\ LET venue_id == event["venue_id"]
           venue_ == get_item(db, "venues", venue_id, NoRow)
       IN  /\ ~ NeedsVenue(venue_id, venue_)
           /\ log' = log \o <<Selected("venues", venue_id, venue_ # NoRow)>>
    /\ pc' = "first_attendees"
    /\ UNCHANGED <<db, catalog, queries, columns, call, now, start, events, ei, event, attendees, ai, remote>>

\* Lines 176-180: the venue is fetched and loaded.
LoadVenue ==
    /\ pc = "venue"
    /\ LET venue_id == event["venue_id"]
           venue_ == get_item(db, "venues", venue_id, NoRow)
       IN  /\ NeedsVenue(venue_id, venue_)
           /\ \E down \in Downs :
                LET g == get_venue(venue_id, 1, down, VenuePayload(venue_id))
                    item == VenueItem(VenuePayload(venue_id))
                    r == load_item(db, columns, item, "venues")
                    looked == <<Selected("venues", venue_id, venue_ # NoRow)>>
                    loaded == <<Inserted("venues", DOMAIN item, r.row, r.raised)>>
                              \o (IF r.raised THEN <<Raised("DatabaseError")>> ELSE << >>)
                IN  /\ log' = log \o looked \o g.log \o (IF g.raised THEN << >> ELSE loaded)
                    /\ pc' = IF g.raised \/ r.raised THEN "fault" ELSE "first_attendees"
                    /\ db' = IF g.raised THEN db ELSE r.db
                    /\ columns' = IF g.raised THEN columns ELSE r.columns
                    /\ queries' = IF g.raised THEN queries
                                  ELSE Lookup(queries, columns, "venues")
                    /\ now' = now + g.slept
                    /\ remote' = Traffic(g.log)
    /\ UNCHANGED <<catalog, call, start, events, ei, event, attendees, ai>>

\* Lines 182-183: the first attendee page of the event.
FirstAttendees ==
    /\ pc = "first_attendees"
    /\ \E down \in Downs, resp \in AttendeesResponses(event["id"], 1) :
        LET r == get_attendees(event["id"], 1, down, resp)
        IN  /\ attendees' = r.result
            /\ now' = now + r.slept
            /\ log' = log \o r.log
            /\ remote' = Traffic(r.log)
    /\ ai' = 1
    /\ pc' = "att_loop"
    /\ UNCHANGED <<db, catalog, queries, columns, call, start, events, ei, event>>

\* Lines 185-186: no attendee page (the retry was refused too): break.
AttendeesAbsent ==
    /\ pc = "att_loop"
    /\ attendees = NoRow
    /\ pc' = "event_sleep"
    /\ UNCHANGED <<db, catalog, queries, columns, call, now, start, events, ei, event, attendees, ai,
                   remote, log>>

\* Lines 187-189: a null entry of the page is skipped.
SkipNullAttendee ==
    /\ pc = "att_loop"
    /\ attendees # NoRow
    /\ ai <= Len(attendees["attendees"])
    /\ attendees["attendees"][ai] = NoRow
    /\ ai' = ai + 1
    /\ UNCHANGED <<db, catalog, queries, columns, call, pc, now, start, events, ei, event, attendees,
                   remote, log>>

\* Lines 190-195: the stored row of the attendee for this event is deleted
\* and the attendee loaded.
ProcessAttendee ==
    /\ pc = "att_loop"
    /\ attendees # NoRow
    /\ ai <= Len(attendees["attendees"])
    /\ attendees["attendees"][ai] # NoRow
    /\ LET a == attendees["attendees"][ai]
           secondary == [event_id |-> event["id"]]
           item == AttendeeItem(a, now)
           r == load_item(delete_item(db, "attendees", a["id"], secondary), columns,
                          item, "attendees")
       IN  /\ db' = r.db
           /\ columns' = r.columns
           /\ queries' = Lookup(queries, columns, "attendees")
           /\ now' = now + 1
           /\ log' = log \o <<Deleted("attendees", a["id"], secondary),
                              Inserted("attendees", DOMAIN item, r.row, r.raised)>>
                         \o (IF r.raised THEN <<Raised("DatabaseError")>> ELSE << >>)
           /\ pc' = IF r.raised THEN "fault" ELSE "att_loop"
           /\ ai' = ai + 1
    /\ UNCHANGED <<catalog, call, start, events, ei, event, attendees, remote>>

\* Lines 197-199: the last attendee page has been processed.
AttendeesDone ==
    /\ pc = "att_loop"
    /\ attendees # NoRow
    /\ ai > Len(attendees["attendees"])
    /\ ~ attendees["pagination"]["has_more_items"]
    /\ pc' = "event_sleep"
    /\ UNCHANGED <<db, catalog, queries, columns, call, now, start, events, ei, event, attendees, ai,
                   remote, log>>

\* Lines 200-202: the next attendee page.
NextAttendees ==
    /\ pc = "att_loop"
    /\ attendees # NoRow
    /\ ai > Len(attendees["attendees"])
    /\ attendees["pagination"]["has_more_items"]
    /\ LET page == NextPage(attendees)
       IN  \E down \in Downs, resp \in AttendeesResponses(event["id"], page) :
            LET r == get_attendees(event["id"], page, down, resp)
            IN  /\ attendees' = r.result
                /\ now' = now + r.slept
                /\ log' = log \o r.log
                /\ remote' = Traffic(r.log)
    /\ ai' = 1
    /\ UNCHANGED <<db, catalog, queries, columns, call, pc, start, events, ei, event>>

\* A plausible slip: the loop goes on to the next entry without the pause.
EventNoSleep ==
    /\ pc = "event_sleep"
    /\ ei' = ei + 1
    /\ pc' = "for_event"
    /\ UNCHANGED <<db, catalog, queries, columns, call, now, start, events, event,
                   attendees, ai, remote, log>>

\* Lines 203-204: the pause after an event.
EventSleep ==
    /\ pc = "event_sleep"
    /\ log' = Append(log, Slept(EVENT_SLEEP))
    /\ now' = now + EVENT_SLEEP
    /\ ei' = ei + 1
    /\ pc' = "for_event"
    /\ UNCHANGED <<db, catalog, queries, columns, call, start, events, event, attendees, ai, remote>>

\* Lines 206-208: the last events page has been processed.
EventsDone ==
    /\ pc = "for_event"
    /\ ei > Len(events["events"])
    /\ ~ events["pagination"]["has_more_items"]
    /\ pc' = "refresh"
    /\ UNCHANGED <<db, catalog, queries, columns, call, now, start, events, ei, event, attendees, ai,
                   remote, log>>

\* Lines 209-213: the next events page.
NextEvents ==
    /\ pc = "for_event"
    /\ ei > Len(events["events"])
    /\ events["pagination"]["has_more_items"]
    /\ LET page == NextPage(events)
       IN  \E down \in Downs, resp \in EventsResponses(page) :
            LET r == get_events(start, page, down, resp)
            IN  /\ events' = r.result
                /\ now' = now + r.slept
                /\ log' = log \o r.log
                /\ remote' = Traffic(r.log)
                /\ pc' = IF r.raised THEN "fault" ELSE "for_event"
    /\ ei' = 1
    /\ UNCHANGED <<db, catalog, queries, columns, call, start, event, attendees, ai>>

\* Line 214.
RefreshViews ==
    /\ pc = "refresh"
    /\ log' = log \o refresh_views
    /\ pc' = "done"
    /\ UNCHANGED <<db, catalog, queries, columns, call, now, start, events, ei, event, attendees, ai, remote>>

NextRun ==
    \/ RunStart
    \/ FirstFetch
    \/ SkipNullEvent
    \/ ProcessEvent
    \/ SkipVenue
    \/ LoadVenue
    \/ FirstAttendees
    \/ AttendeesAbsent
    \/ SkipNullAttendee
    \/ ProcessAttendee
    \/ AttendeesDone
    \/ NextAttendees
    \/ EventSleep
    \/ EventsDone
    \/ NextEvents
    \/ RefreshViews

SpecRun == InitRun /\ [][NextRun]_vars

RunOver == pc \in {"done", "returned", "fault"}

(***************************************************************************)
(* The job run twice: a run, and the next run once the first is over       *)
(* (ended or faulted), against a remote whose list of events stays the     *)
(* same.                                                                   *)
(***************************************************************************)
MaxListing == 2

\* The events the organizer may have.
ListingMenu ==
    {NoRow, EventPayload("e1", "Meetup", None), EventPayload("e2", "Workshop", "v1"),
     BrokenEventPayload("e2", "Workshop"), LateEventPayload("e3", "Gala")}

\* The lists of events with distinct identifiers; a null entry is listed as
\* such.
Listings ==
    {list \in SeqsUpTo(ListingMenu, MaxListing) :
        \A i, j \in DOMAIN list :
            (list[i] # NoRow /\ list[j] # NoRow /\ list[i]["id"] = list[j]["id"]) => i = j}

\* The start of a run: the identifiers of the events stored then.
Began(d) ==
    [op |-> "run", stored |-> {d["events"][i]["id"] : i \in DOMAIN d["events"]}]

InitJob ==
    /\ catalog = Catalog
    /\ queries = NoQueries
    /\ db \in {EmptyStore, SeededStore}
    /\ columns = << >>
    /\ call = NoCall
    /\ pc = "idle"
    /\ now = Epoch
    /\ start = None
    /\ events = NoRow
    /\ ei = 0
    /\ event = NoRow
    /\ attendees = NoRow
    /\ ai = 0
    /\ \E listing \in Listings :
            remote = [outages |-> 0, entries |-> 0, mores |-> 0,
                      listing |-> listing, runs |-> 1]
    /\ log = <<Began(db)>>

\* The job is started again: a new process, with a new Database instance
\* and new locals.
Restart ==
    /\ RunOver
    /\ Listed
    /\ remote["runs"] = 1
    /\ remote' = [remote EXCEPT !["runs"] = @ + 1, !["entries"] = 0, !["mores"] = 0]
    /\ pc' = "idle"
    /\ columns' = << >>
    /\ queries' = [queries EXCEPT !.loads = NoQueries.loads, !.first = << >>,
                                  !.instances = @ + 1]
    /\ start' = None
    /\ events' = NoRow
    /\ ei' = 0
    /\ event' = NoRow
    /\ attendees' = NoRow
    /\ ai' = 0
    /\ log' = Append(log, Began(db))
    /\ UNCHANGED <<db, catalog, call, now>>

\* The process is interrupted while it sleeps after an event (line 204): the
\* run ends there with the exception.
Killed ==
    /\ pc = "event_sleep"
    /\ Listed
    /\ pc' = "fault"
    /\ log' = Append(log, Raised("KeyboardInterrupt"))
    /\ UNCHANGED <<db, catalog, queries, columns, call, now, start, events, ei, event,
                   attendees, ai, remote>>

NextJob == NextRun \/ Restart \/ Killed

SpecJob == InitJob /\ [][NextJob]_vars

(***************************************************************************)
(* The objects a load works on.  A dict is an object of a heap (a sequence *)
(* of dicts) and a variable holds a reference to it (its index), so that   *)
(* a write through one reference is seen through every reference to the   *)
(* same object.                                                            *)
(***************************************************************************)
\* A plausible slip: x_ = x, no copy is made.
deepcopy_same(heap, ref) == [heap |-> heap, ref |-> ref]

\* copy.deepcopy(x): a new object that holds what x holds.
deepcopy(heap, ref) == [heap |-> Append(heap, heap[ref]), ref |-> Len(heap) + 1]

\* x_[key] = value, del x_[key]: the object referred to holds dict afterwards.
Written(heap, ref, dict) == [heap EXCEPT ![ref] = dict]

\* x_ = deepcopy(x), then the writes to x_ that make it hold dict: the heap
\* afterwards and the reference x_.
CopyAndWrite(heap, ref, dict) ==
    LET copy == deepcopy(heap, ref)
    IN  [heap |-> Written(copy.heap, copy.ref, dict), ref |-> copy.ref]

\* The objects after Database.load_item(item, table), item being heap[ref]
\* (lines 95-98).
HeapLoadItem(heap, ref, cols) ==
    CopyAndWrite(heap, ref, ValidItem(heap[ref], cols)).heap

\* The objects after Database.load_items(items, table), the items being the
\* first n objects of the heap (lines 129-132 and 146-150): the pairs of a
\* dict not in columns are deleted from its copy.
RECURSIVE HeapLoadItems(_, _, _)
HeapLoadItems(heap, n, cols) ==
    IF n = 0 THEN heap
    ELSE CopyAndWrite(HeapLoadItems(heap, n - 1, cols), n,
                      ValidPairs(heap[n], cols)).heap

\* The objects after a load_event / load_attendee / load_order / load_venue
\* call on the payload heap[ref]: the payload is copied, the copy is made the
\* dict item, and load_item is called with it.  When the transformation
\* raises, the copy is all there is.
HeapLoader(heap, ref, raises, item, cols) ==
    IF raises THEN deepcopy(heap, ref).heap
    ELSE LET made == CopyAndWrite(heap, ref, item)
         IN  HeapLoadItem(made.heap, made.ref, cols)

(***************************************************************************)
(* The loads called directly, each with an argument the caller keeps a     *)
(* reference to: load_item and load_items of the gateway, load_event,      *)
(* load_attendee, load_order and load_venue of the driver.                 *)
(***************************************************************************)
LoadTables == {"venues"}

LoadBatches ==
    CacheBatches \cup {b1 \o b2 : b1 \in CacheBatches, b2 \in CacheBatches}

LoadItemCall ==
    \E table \in LoadTables, item \in CacheItems :
        LET r == load_item(db, columns, item, table)
        IN  /\ TotalRows(db) < MaxRows
            /\ db' = r.db
            /\ columns' = r.columns
            /\ queries' = Lookup(queries, columns, table)
            /\ call' = [NoCall EXCEPT
                            !.op = "load_item", !.table = table, !.item = item,
                            !.left = HeapLoadItem(<<item>>, 1, r.columns[table])[1],
                            !.before = db[table], !.raised = r.raised]
            /\ UNCHANGED <<catalog, driverVars>>

LoadItemsCall ==
    \E table \in LoadTables, items \in LoadBatches :
        LET r == load_items(db, columns, items, table)
        IN  /\ TotalRows(db) + Len(items) <= MaxRows
            /\ db' = r.db
            /\ columns' = r.columns
            /\ queries' = Lookup(queries, columns, table)
            /\ call' = [NoCall EXCEPT
                            !.op = "load_items", !.table = table, !.items = items,
                            !.left = SubSeq(HeapLoadItems(items, Len(items),
                                                          r.columns[table]),
                                            1, Len(items)),
                            !.before = db[table], !.raised = r.raised]
            /\ UNCHANGED <<catalog, driverVars>>

\* A call of one of the four loaders of the driver on a payload: item is the
\* dict the loader makes of (a copy of) the payload.  The store, the cache,
\* the catalog queries and the call afterwards.
LoaderCall(op, table, payload, raises, item) ==
    LET r == load_item(db, columns, item, table)
    IN  [db      |-> IF raises THEN db ELSE r.db,
         columns |-> IF raises THEN columns ELSE r.columns,
         queries |-> IF raises THEN queries ELSE Lookup(queries, columns, table),
         call    |-> [NoCall EXCEPT
                         !.op = op, !.table = table, !.item = payload,
                         !.left = HeapLoader(<<payload>>, 1, raises, item,
                                             CachedColumns(columns, table)[table])[1],
                         !.before = db[table], !.raised = raises \/ r.raised]]

LoadEventCall ==
    \E e \in ListingMenu \ {NoRow} :
        LET r == LoaderCall("load_event", "events", e, LoadEventRaises(e), EventItem(e, now))
        IN  /\ TotalRows(db) < MaxRows
            /\ db' = r.db
            /\ columns' = r.columns
            /\ queries' = r.queries
            /\ call' = r.call
            /\ UNCHANGED <<catalog, driverVars>>

LoadAttendeeCall ==
    \E a \in AttendeeMenu("e1") \ {NoRow} :
        LET r == LoaderCall("load_attendee", "attendees", a, FALSE, AttendeeItem(a, now))
        IN  /\ TotalRows(db) < MaxRows
            /\ db' = r.db
            /\ columns' = r.columns
            /\ queries' = r.queries
            /\ call' = r.call
            /\ UNCHANGED <<catalog, driverVars>>

LoadOrderCall ==
    \E o \in {OrderPayload("o1")} :
        LET r == LoaderCall("load_order", "orders", o, FALSE, OrderItem(o, now))
        IN  /\ TotalRows(db) < MaxRows
            /\ db' = r.db
            /\ columns' = r.columns
            /\ queries' = r.queries
            /\ call' = r.call
            /\ UNCHANGED <<catalog, driverVars>>

LoadVenueCall ==
    \E v \in {VenuePayload("v1")} :
        LET r == LoaderCall("load_venue", "venues", v, FALSE, VenueItem(v))
        IN  /\ TotalRows(db) < MaxRows
            /\ db' = r.db
            /\ columns' = r.columns
            /\ queries' = r.queries
            /\ call' = r.call
            /\ UNCHANGED <<catalog, driverVars>>

NextLoad ==
    \/ LoadItemCall
    \/ LoadItemsCall
    \/ LoadEventCall
    \/ LoadAttendeeCall
    \/ LoadOrderCall
    \/ LoadVenueCall

SpecLoad == InitDb /\ [][NextLoad]_vars

(***************************************************************************)
(* Properties of the gateway (checked under SpecDb)                        *)
(***************************************************************************)
\* The fields of the load_item call's record that the table has a column for.
KeptFields == Restrict(call.item, Catalog[call.table])

\* The row to insert has the id of a stored row of a uniquely indexed table.
IdClash ==
    /\ call.table \in UniqueIndex
    /\ "id" \in DOMAIN KeptFields
    /\ \E i \in DOMAIN call.before : MatchesId(call.before[i], KeptFields["id"])

\* C1 as stated: for every record r and table t, load_item(r, t) raises
\* nothing and appends exactly one row, r restricted to t's columns.
C1_AnyRecordInserted ==
    call.op = "load_item" =>
        /\ ~ call.raised
        /\ db[call.table] = Append(call.before, KeptFields)

\* C1 as amended: load_item(r, t) appends exactly one row, r restricted to
\* t's columns with r's values, and raises nothing, whenever r has at least
\* one field among t's columns and the row does not repeat an id of a
\* uniquely indexed table; otherwise the insert raises and t is unchanged.
C1_ColumnIntersection ==
    call.op = "load_item" =>
        IF DOMAIN KeptFields # {} /\ ~ IdClash
        THEN /\ ~ call.raised
             /\ db[call.table] = Append(call.before, KeptFields)
        ELSE /\ call.raised
             /\ db[call.table] = call.before

\* A load_item call that dropped an unrecognized field and inserted the rest.
C1_Witness ==
    /\ call.op = "load_item"
    /\ ~ call.raised
    /\ "bogus" \in DOMAIN call.item
    /\ "name" \in DOMAIN call.item
    /\ Len(db[call.table]) = Len(call.before) + 1
    /\ DOMAIN db[call.table][Len(db[call.table])] = DOMAIN call.item \ {"bogus"}

\* C10 as stated: get_item returns the first row that matches id and every
\* field/value pair of secondary, and None (NoRow) when no row matches both.
C10_SecondaryFilter ==
    call.op = "get_item" =>
        LET Hit(row) == MatchesId(row, call.item_id) /\ MatchesSecondary(row, call.secondary)
            hits == SelectSeq(call.before, Hit)
        IN  call.result = IF Len(hits) > 0 THEN hits[1] ELSE NoRow

(***************************************************************************)
(* Properties of a run (checked under SpecRun)                             *)
(***************************************************************************)
EventIds == {e["id"] : e \in EventMenu \ {NoRow}}

Requests(kind) == {i \in DOMAIN log : log[i].op = "request" /\ log[i].kind = kind}

Inserts(table) == {i \in DOMAIN log : log[i].op = "insert" /\ log[i].table = table}

EventInserts(id) == {i \in Inserts("events") : log[i].row["id"] = id}

Earlier(S, i) == {j \in S : j < i}

NoRefusal == \A i \in DOMAIN log : log[i].op = "request" => log[i].down = 0

StoredEvents(id) == LET Hit(row) == MatchesId(row, id) IN SelectSeq(db["events"], Hit)

\* C2: the event step (delete, then load) never fails on the stored row, and
\* once it has run for an identifier, however often, the events table holds
\* exactly one row for that identifier: the row of the latest load.
C2_DeleteThenInsert ==
    /\ \A i \in Inserts("events") : ~ log[i].raised
    /\ \A id \in EventIds :
         EventInserts(id) # {} =>
            /\ Len(StoredEvents(id)) = 1
            /\ StoredEvents(id)[1] = log[Max(EventInserts(id))].row
    /\ pc = "venue" =>
         /\ Len(StoredEvents(event["id"])) = 1
         /\ StoredEvents(event["id"])[1]["name"] = event["name"]["text"]
         /\ StoredEvents(event["id"])[1]["venue_id"] = event["venue_id"]
         /\ StoredEvents(event["id"])[1]["load_datetime"] = now - 1

\* One identifier loaded twice in a run, with different field values.
C2_Witness ==
    /\ pc = "venue"
    /\ Cardinality(EventInserts(event["id"])) = 2
    /\ \E i \in EventInserts(event["id"]) : log[i].row["name"] # event["name"]["text"]

\* C3: when the venues table holds a row with the identifier of the event's
\* venue, the venue step makes no venue request and no insert into venues,
\* and leaves the venues table as it was.
C3_VenueLoadOnce ==
    [][(/\ pc = "venue"
        /\ \E i \in DOMAIN db["venues"] : MatchesId(db["venues"][i], event["venue_id"]))
       => /\ db'["venues"] = db["venues"]
          /\ \A j \in (DOMAIN log') \ (DOMAIN log) :
                /\ ~ (log'[j].op = "request" /\ log'[j].kind = "venue")
                /\ ~ (log'[j].op = "insert" /\ log'[j].table = "venues")]_vars

\* The venue step has just found the event's venue stored.
C3_Witness ==
    /\ pc = "first_attendees"
    /\ log[Len(log)] = Selected("venues", event["venue_id"], TRUE)
    /\ \E i \in DOMAIN db["venues"] : MatchesId(db["venues"][i], event["venue_id"])

\* C4: when no request is refused, the pages of the events list are requested
\* as 1, 2, ..., each after a page that reported has_more_items, and the loop
\* is left exactly after the first page that did not; the same holds for the
\* attendee list of each event processed, which is left before the pause that
\* ends the event.
C4_Pagination ==
    NoRefusal =>
        /\ \A i \in Requests("events") :
             LET before == Earlier(Requests("events"), i)
             IN  IF before = {} THEN log[i].page = 1
                 ELSE /\ log[Max(before)].more
                      /\ log[i].page = log[Max(before)].page + 1
        /\ pc \in {"refresh", "done"} =>
             /\ Requests("events") # {}
             /\ ~ log[Max(Requests("events"))].more
        /\ \A i \in Requests("attendees") :
             LET before == Earlier(Requests("attendees"), i)
             IN  IF log[i].page = 1
                 THEN before # {} => ~ log[Max(before)].more
                 ELSE /\ before # {}
                      /\ log[Max(before)].more
                      /\ log[Max(before)].id = log[i].id
                      /\ log[i].page = log[Max(before)].page + 1
        /\ \A k \in DOMAIN log :
             log[k] = Slept(EVENT_SLEEP) =>
                /\ Earlier(Requests("attendees"), k) # {}
                /\ ~ log[Max(Earlier(Requests("attendees"), k))].more

\* A run without refusals that ended after an events list of one page and an
\* attendee list of two pages.
C4_Witness ==
    /\ pc = "done"
    /\ NoRefusal
    /\ Cardinality(Requests("events")) = 1
    /\ \E i \in Requests("attendees") : log[i].page = 2

\* C5 as stated: a first attempt refused when a second would succeed is
\* followed by one pause of 3600 and by the identical request, which succeeds.
C5_RetrySucceeds ==
    \A i \in DOMAIN log :
        (log[i].op = "request" /\ log[i].attempt = 1 /\ log[i].down = 1) =>
            /\ i + 2 <= Len(log)
            /\ log[i + 1] = Slept(3600)
            /\ log[i + 2].op = "request"
            /\ log[i + 2].kind = log[i].kind
            /\ log[i + 2].id = log[i].id
            /\ log[i + 2].start = log[i].start
            /\ log[i + 2].page = log[i].page
            /\ log[i + 2].attempt = 2
            /\ log[i + 2].down = 0

\* C6 as stated: when the remote refuses the first attempt and the retry,
\* there is one pause, the request is made twice, and the run ends with a
\* fault: it does nothing more and does not end normally.
C6_RetryExhausted ==
    \A i \in DOMAIN log :
        (log[i].op = "request" /\ log[i].attempt = 1 /\ log[i].down = 2) =>
            /\ i + 2 <= Len(log)
            /\ log[i + 1] = Slept(3600)
            /\ log[i + 2].op = "request"
            /\ log[i + 2].attempt = 2
            /\ log[i + 2].down > 0
            /\ i + 3 <= Len(log) => (i + 3 = Len(log) /\ log[i + 3].op = "raise")
            /\ RunOver => pc = "fault"

\* C7 as stated: every record handed to load_item carries load_datetime.
C7_LoadTimestamp ==
    \A i \in DOMAIN log : log[i].op = "insert" => "load_datetime" \in log[i].fields

\* C8: a run whose first events page reports events and that ends without a
\* fault ends by refreshing event_aggregates, members_view and participants,
\* once each and in that order, as its last three steps; nothing is
\* refreshed in any other state of a run.
C8_RefreshViews ==
    /\ (RunOver /\ pc # "fault" /\ log[1].count > 0) => pc = "done"
    /\ pc = "done" =>
        /\ Len(log) >= 3
        /\ SubSeq(log, Len(log) - 2, Len(log)) =
              <<Refreshed("event_aggregates"), Refreshed("members_view"),
                Refreshed("participants")>>
        /\ Cardinality({i \in DOMAIN log : log[i].op = "refresh"}) = 3
        /\ log[1].count > 0
    /\ pc # "done" => {i \in DOMAIN log : log[i].op = "refresh"} = {}

\* A run that loaded an event and an attendee and then refreshed the views.
C8_Witness ==
    /\ pc = "done"
    /\ Inserts("events") # {}
    /\ Inserts("attendees") # {}

\* C9: when the first events page reports an event count of zero, the run
\* returns at once: the request for that page is all it has done.
C9_NoEvents ==
    /\ (log # << >> /\ log[1].down = 0 /\ log[1].count = 0) =>
          /\ pc = "returned"
          /\ log = <<Served("events", EVENTBRITE_ORG, start, 1, 1, EventsPage(1, << >>, FALSE))>>
          /\ db \in {EmptyStore, SeededStore}
    /\ pc = "returned" => (log[1].down = 0 /\ log[1].count = 0)

\* A run that returned on an empty events list.
C9_Witness == pc = "returned" /\ Len(log) = 1

(***************************************************************************)
(* Table maintenance (checked under SpecAdmin)                             *)
(***************************************************************************)
\* C11: once a table has been backed up, whatever inserts, deletes and
\* truncates followed, a revert_table call on it completes and leaves the
\* table holding the rows of its backup.
C11_BackupRevert ==
    (call.op = "revert_table" /\ BackupOf(call.table) \in DOMAIN db) =>
        /\ ~ call.raised
        /\ db[call.table] = db[BackupOf(call.table)]

(***************************************************************************)
(* Batch loads (checked under SpecBatch)                                   *)
(***************************************************************************)
\* load_item called for each record of a list in order, from the store d:
\* the store afterwards and whether a call raised (the loop stops there).
RECURSIVE LoadEach(_, _, _, _)
LoadEach(d, cols, items, table) ==
    IF items = << >> THEN [db |-> d, raised |-> FALSE]
    ELSE LET r == load_item(d, cols, AsDict(Head(items)), table)
         IN  IF r.raised THEN [db |-> r.db, raised |-> TRUE]
             ELSE LoadEach(r.db, r.columns, Tail(items), table)

\* C12: a load_items call with a non-empty batch does what load_item called
\* for each record in order does: it raises only if one of those calls would,
\* the rows it adds are the records restricted to the table's columns, each
\* value under its own field name, and when it raises it adds no row.
C12_BatchAsLoop ==
    (call.op = "load_items" /\ call.items # << >>) =>
        LET loop == LoadEach([db EXCEPT ![call.table] = call.before], << >>,
                             call.items, call.table)
        IN  /\ call.raised = loop.raised
            /\ ~ call.raised => db[call.table] = loop.db[call.table]
            /\ call.raised => db[call.table] = call.before

(***************************************************************************)
(* The column cache (checked under SpecCache)                              *)
(***************************************************************************)
\* C13: the column lookups are cached for the whole process: whatever
\* get_columns, load_item and load_items calls are made, on whatever
\* instance, the catalog is queried at most once per table name.
C13_ProcessWideCache == \A t \in Tables : queries.process[t] <= 1

\* C13 as the code has it: the cache belongs to the Database instance and is
\* filled by load_item and load_items only.  The loads of one instance look
\* a table up at most once, the cache holds what that lookup returned, and
\* every write through the instance keeps the fields of that column set,
\* whatever the catalog holds by now.
C13_InstanceCache ==
    /\ \A t \in Tables : queries.loads[t] <= 1
    /\ columns = queries.first
    /\ (call.op = "load_item" /\ ~ call.raised) =>
          db[call.table] =
              Append(call.before, Restrict(call.item, queries.first[call.table]))
    /\ (call.op = "load_items" /\ ~ call.raised) =>
          db[call.table] =
              Append(call.before,
                     AsDict(ValidPairs(call.items[1], queries.first[call.table])))

\* A write through an instance whose cached column set is no longer the
\* table's: a field the table has a column for by now was dropped.
C13_Witness ==
    /\ call.op = "load_item"
    /\ ~ call.raised
    /\ queries.first[call.table] # catalog[call.table]
    /\ \E k \in DOMAIN call.item :
            /\ k \in catalog[call.table]
            /\ k \notin DOMAIN db[call.table][Len(db[call.table])]

\* C14: after any sequence of event and attendee loads the attendees table
\* holds at most one row per attendee id, and no attendee insert of the run
\* is rejected: the stored row of the id has been removed before, whatever
\* event it belongs to.
C14_AttendeeUnique ==
    /\ \A i, j \in DOMAIN db["attendees"] :
            db["attendees"][i]["id"] = db["attendees"][j]["id"] => i = j
    /\ \A i \in Inserts("attendees") : ~ log[i].raised

(***************************************************************************)
(* Two runs of the job (checked under SpecJob)                             *)
(***************************************************************************)
\* The log index at which the second run began (0 while there is none).
SecondRun ==
    LET began == {i \in DOMAIN log : i > 1 /\ log[i].op = "run"}
    IN  IF began = {} THEN 0 ELSE Max(began)

\* The first run loaded an event and then faulted: it was interrupted.
FirstRunFaulted ==
    /\ SecondRun > 0
    /\ log[SecondRun - 1] = Raised("KeyboardInterrupt")
    /\ \E i \in Inserts("events") : i < SecondRun /\ ~ log[i].raised

\* The events the first run was to load: those the remote lists for the
\* start filter of its first request.
FirstRange == InRange(remote["listing"], log[2].start)

\* C15: when a run faulted after it had loaded an event and the next run,
\* against the same remote, has ended without a fault, every event of the
\* range of the faulted run is stored, as the remote has it.  (The fault
\* taken is an interrupt, with no request refused and no payload that
\* load_event cannot read, so that nothing else stands in the way.)
C15_RestartCompletes ==
    (/\ FirstRunFaulted
     /\ NoRefusal
     /\ pc \in {"done", "returned"}
     /\ \A k \in DOMAIN remote["listing"] :
            remote["listing"][k] # NoRow => ~ LoadEventRaises(remote["listing"][k]))
    => \A k \in DOMAIN FirstRange :
            FirstRange[k] # NoRow =>
                \E i \in DOMAIN db["events"] :
                    /\ db["events"][i]["id"] = FirstRange[k]["id"]
                    /\ db["events"][i]["name"] = FirstRange[k]["name"]["text"]

\* The log index at which the run in progress (or just over) began.
CurrentRun == Max({i \in DOMAIN log : log[i].op = "run"})

\* The run in progress deleted the row of the event and faulted in the load
\* that was to follow.
FaultedInLoad(id) ==
    /\ pc = "fault"
    /\ \E i \in DOMAIN log :
        /\ i > CurrentRun
        /\ log[i] = Deleted("events", id, NoRow)
        /\ \/ i + 1 = Len(log) /\ log[i + 1].op = "raise"
           \/ i + 2 = Len(log) /\ log[i + 1].op = "insert" /\ log[i + 1].raised

\* C18: no run loses an event: every event identifier stored when the run
\* began is stored when the run is over, however it ended.
C18_NoEventLost ==
    RunOver => \A id \in log[CurrentRun].stored : StoredEvents(id) # << >>

\* C18 as the code has it: the delete of the stored row is committed before
\* the event is transformed and inserted.  An event identifier stored when
\* the run began is stored throughout the run, and when it is over, unless
\* the run faulted in the load of that very event: then the row is gone.
C18_EventKeptUnlessLoadFaults ==
    \A id \in log[CurrentRun].stored :
        /\ StoredEvents(id) = << >> <=> FaultedInLoad(id)
        /\ Len(StoredEvents(id)) <= 1

\* A run that replaced the row of an event stored before it and ended
\* without a fault.
C18_Witness ==
    /\ pc = "done"
    /\ \E id \in log[CurrentRun].stored, i \in DOMAIN log :
            /\ i > CurrentRun
            /\ log[i] = Deleted("events", id, NoRow)
            /\ Len(StoredEvents(id)) = 1
            /\ StoredEvents(id)[1]["load_datetime"] >= Epoch

\* C16: when last_event_load_date returns a value L, the run filters every
\* events page it asks for, the first and the later ones, by the calendar
\* date of the smaller of now - 1 day and L; when it returns None, no events
\* page of the run is asked for with a start filter.
C16_StartFilter ==
    [][/\ (pc = "idle" /\ pc' # "idle") =>
            LET L == last_event_load_date(db)
            IN  IF L = << >> THEN start' = None
                ELSE \E day \in 0..(now \div Day), m \in {now - Day, L[1]} :
                        /\ m <= now - Day
                        /\ m <= L[1]
                        /\ day * Day <= m
                        /\ m < (day + 1) * Day
                        /\ start' = ToString(day)
       /\ (pc # "idle" /\ pc' # "idle") => start' = start
       /\ \A i \in DOMAIN log' :
            (i > Len(log) /\ log'[i].op = "request" /\ log'[i].kind = "events") =>
                log'[i].start = start'
      ]_vars

\* A run filtered by the date of the last load (it is older than a day) and
\* the next run filtered by the date of the day before, on a second page too.
C16_Witness ==
    \E i, j \in Requests("events") :
        /\ i < j
        /\ log[i].start = DateOf(SeedTime)
        /\ log[j].start = DateOf(Epoch - Day)
        /\ log[j].page = 2

(***************************************************************************)
(* The pause after an event (checked under SpecRun)                        *)
(***************************************************************************)
\* The log indexes of the pauses of 60 and of the event steps (the step of a
\* non-null entry begins with the delete of the stored row).
Pauses == {i \in DOMAIN log : log[i] = Slept(EVENT_SLEEP)}

EventSteps == {i \in DOMAIN log : log[i].op = "delete" /\ log[i].table = "events"}

\* What may follow the pause: the step of the next event, the request for
\* the next events page, or the refresh of the views.
AfterPause(entry) ==
    \/ entry.op = "delete" /\ entry.table = "events"
    \/ entry.op = "request" /\ entry.kind = "events"
    \/ entry.op = "refresh"

\* C17: one pause of 60 follows each non-null event processed: it comes
\* after the last attendee page of the event has been handled (the last
\* attendee request before it announced no further page, or was refused
\* twice) and before anything is done for the next event; there is no other
\* pause of 60, so null entries cause none, and when a run ends without a
\* fault it has paused as often as it has processed non-null events.
C17_EventPause ==
    /\ \A e1, e2 \in EventSteps :
            e1 < e2 => \E p \in Pauses : e1 < p /\ p < e2
    /\ \A p \in Pauses :
            /\ \E e \in EventSteps :
                    /\ e < p
                    /\ \A q \in Pauses : ~ (e < q /\ q < p)
                    /\ \E a \in Requests("attendees") :
                            /\ e < a
                            /\ a < p
                            /\ ~ log[a].more
                            /\ \A b \in Requests("attendees") : ~ (a < b /\ b < p)
            /\ p < Len(log) => AfterPause(log[p + 1])
    /\ pc \in {"done", "refresh"} => Cardinality(Pauses) = Cardinality(EventSteps)

\* A run that ended without a fault on an events page of a null entry and an
\* event: one event step, one pause.
C17_Witness ==
    /\ pc = "done"
    /\ \E i \in Requests("events") : log[i].n = 2
    /\ Cardinality(EventSteps) = 1
    /\ Cardinality(Pauses) = 1

(***************************************************************************)
(* The arguments of the loads (checked under SpecLoad)                     *)
(***************************************************************************)
LoadOps ==
    {"load_item", "load_items", "load_event", "load_attendee", "load_order", "load_venue"}

\* C19: a load leaves what it was passed as it was: after load_item and
\* load_items the record(s), after load_event, load_attendee, load_order and
\* load_venue the payload, hold the same fields with the same values,
\* whether the call raised or not.
C19_ArgumentsUnchanged ==
    /\ call.op = "load_items" => call.left = call.items
    /\ call.op \in LoadOps \ {"load_items"} =>
          /\ DOMAIN call.left = DOMAIN call.item
          /\ call.left = call.item

\* A record with a field the table has no column for was loaded: the row
\* lacks the field, the record still has it.
C19_Witness ==
    /\ call.op = "load_item"
    /\ ~ call.raised
    /\ "bogus" \in DOMAIN call.item
    /\ "bogus" \notin DOMAIN db[call.table][Len(db[call.table])]
    /\ "bogus" \in DOMAIN call.left

====
